---- MODULE Spec2Model ----
(***************************************************************************)
(* Model of evidencia.py: the coworking room-reservation program.          *)
(*                                                                         *)
(* The program is a menu loop over one SQLite file.  Every prompt of a     *)
(* handler is one step of the model: the caller's answer is drawn from a   *)
(* small set, the handler's checks decide what is printed (msg) and where  *)
(* the handler goes next (pc).  A date is a day ordinal                    *)
(* (datetime.date.toordinal), a timestamp is a number of clock ticks, a    *)
(* text is a sequence of characters.                                       *)
(*                                                                         *)
(* Two specifications: Spec is one running instance of the program;        *)
(* SpecConc is two instances sharing the database file, both registering   *)
(* reservations.  JSON export and table rendering write nothing to the     *)
(* database and are not modelled.                                          *)
(***************************************************************************)
EXTENDS Integers, Sequences, FiniteSets

(* ------------------------------ bounds --------------------------------- *)
MaxClientes == 1
MaxSalas == 1
MaxReservas == 2
MaxNombre == 1
MaxEvento == 2
MaxCupo == 1
TicksPorDia == 2
DiaInicial == 4
MaxDias == 2
MaxAdelanto == 4
MaxFechaVal == 15

Instancias == {1, 2}

(* ------------------------------ texts ---------------------------------- *)
Letras == {"a"}
Blancos == {" "}
Digitos == {"1"}

Textos(alfabeto, n) == UNION {[1..k -> alfabeto] : k \in 0..n}

NombreInputs == Textos(Letras \cup Blancos \cup Digitos, MaxNombre)
EventoInputs == Textos(Letras \cup Blancos, MaxEvento)

RECURSIVE lstrip(_)
lstrip(s) == IF s = <<>> THEN s
             ELSE IF Head(s) \in Blancos THEN lstrip(Tail(s)) ELSE s

RECURSIVE rstrip(_)
rstrip(s) == IF s = <<>> THEN s
             ELSE IF s[Len(s)] \in Blancos THEN rstrip(SubSeq(s, 1, Len(s) - 1)) ELSE s

strip(s) == rstrip(lstrip(s))

IsSpace(c) == c = " "
isalpha(s) == s # <<>> /\ \A i \in 1..Len(s) : s[i] \in Letras

(* Mutant: the name is only checked to be a text.                          *)
validar_evento_sin_strip(evento) == Len(evento) >= 0

validar_evento(evento) == strip(evento) # <<>>

validar_texto(texto) == isalpha(SelectSeq(texto, LAMBDA c : ~IsSpace(c)))

(* clientes is the list read at line 152: the rows with id_cliente 1..ncli. *)
validar_clave_cliente(clave, ncli) == \E id_cliente \in 1..ncli : id_cliente = clave

(* ------------------------------ dates ---------------------------------- *)
Turnos == <<"mañana", "tarde", "noche">>
TurnoInputs == {"mañana", "tarde", "noche", "TARDE", "otro"}

TurnosValidos == {Turnos[i] : i \in 1..Len(Turnos)}

lower(s) == IF s = "TARDE" THEN "tarde" ELSE IF s = "S" THEN "s" ELSE s

Fechas == DiaInicial .. (DiaInicial + MaxAdelanto)

weekday(d) == (d + 6) % 7

combine(fecha, hora) == fecha * TicksPorDia + hora

(* Mutant: the timestamp is compared as it is stored.                      *)
DATE_sin_truncar(ts) == ts

DATE(ts) == ts \div TicksPorDia

(* validar_fecha_simple: the strict policy.  Result: [ok, fecha, msg].      *)
validar_fecha_simple(fecha, hoy) ==
    IF fecha - hoy < 2 THEN [ok |-> FALSE, fecha |-> 0, msg |-> "Anticipacion"]
    ELSE IF weekday(fecha) = 6 THEN [ok |-> FALSE, fecha |-> 0, msg |-> "Domingo"]
    ELSE [ok |-> TRUE, fecha |-> fecha, msg |-> ""]

(* Mutant: the accepted proposal is not taken over.                        *)
validar_fecha_sin_sugerido(fecha, hoy, aceptar) ==
    IF fecha - hoy < 2 THEN [ok |-> FALSE, fecha |-> 0, msg |-> "Anticipacion"]
    ELSE IF weekday(fecha) = 6
         THEN IF aceptar = "s" THEN [ok |-> TRUE, fecha |-> fecha, msg |-> "Domingo"]
              ELSE [ok |-> FALSE, fecha |-> 0, msg |-> "Domingo"]
    ELSE [ok |-> TRUE, fecha |-> fecha, msg |-> ""]

(* validar_fecha: the interactive policy; aceptar is the caller's answer to *)
(* the proposed date.                                                      *)
validar_fecha(fecha, hoy, aceptar) ==
    IF fecha - hoy < 2 THEN [ok |-> FALSE, fecha |-> 0, msg |-> "Anticipacion"]
    ELSE IF weekday(fecha) = 6
         THEN IF aceptar = "s" THEN [ok |-> TRUE, fecha |-> fecha + 1, msg |-> "Domingo"]
              ELSE [ok |-> FALSE, fecha |-> 0, msg |-> "Domingo"]
    ELSE [ok |-> TRUE, fecha |-> fecha, msg |-> ""]

(* ------------------------------ state ---------------------------------- *)
VARIABLES
    ahora,          \* the clock, in ticks
    clientes,       \* table clientes: row i has id_cliente = i
    salas,          \* table salas: row i has id_sala = i
    reservaciones,  \* table reservaciones (committed rows): row i has folio = i
    activos,        \* the running instances of the program
    pc,             \* pc[p]: the prompt instance p is waiting at
    loc,            \* loc[p]: the local variables of the running handler
    msg,            \* msg[p]: what the last step of p printed
    creadas,        \* the confirmations printed by registrar_reservacion
    val             \* the last call of a date validator: input and result

vars == <<ahora, clientes, salas, reservaciones, activos, pc, loc, msg, creadas, val>>

hoy == ahora \div TicksPorDia
hora == ahora % TicksPorDia

LocInicial == [ncli |-> 0, id_cliente |-> 0, fecha |-> 0, libres |-> {}, id_sala |-> 0, turno |-> "",
               evento |-> <<>>, fecha_hora |-> 0, rango |-> <<>>, folio |-> 0]

Salida(texto) == [texto |-> texto, fecha |-> 0, tabla |-> <<>>]

SinResultado == [ok |-> FALSE, fecha |-> 0, msg |-> ""]

ValInicial == [fecha |-> 0, hoy |-> 0, politica |-> "", aceptar |-> "", res |-> SinResultado]

(* ------------------------------ queries -------------------------------- *)
(* Mutant: the result of the query is not looked at.                       *)
sala_disponible_siempre(id_sala, fecha, turno) ==
    Len(SelectSeq(reservaciones,
                  LAMBDA r : r.id_sala = id_sala /\ DATE(r.fecha_registro) = fecha
                             /\ r.turno = turno)) >= 0

(* sala_disponible: SELECT ... WHERE id_sala=? AND DATE(fecha_registro)=?  *)
(* AND turno=?, no row found.                                              *)
sala_disponible(id_sala, fecha, turno) ==
    Len(SelectSeq(reservaciones,
                  LAMBDA r : r.id_sala = id_sala /\ DATE(r.fecha_registro) = fecha
                             /\ r.turno = turno)) = 0

turnos_libres(id_sala, fecha) ==
    {Turnos[i] : i \in {j \in 1..Len(Turnos) : sala_disponible(id_sala, fecha, Turnos[j])}}

(* disponible_salas: the rooms with at least one free shift, as the set of  *)
(* listed (room, shift) pairs.                                             *)
disponible_salas(fecha) ==
    {<<s, t>> \in (1..Len(salas)) \X TurnosValidos :
        t \in turnos_libres(s, fecha)}

(* ORDER BY: the rows of seq in increasing order of clave[i], rows of equal  *)
(* key in table order.                                                     *)
order_by(seq, clave) ==
    LET n == Len(seq)
        pos(i) == Cardinality({j \in 1..n : clave[j] < clave[i]
                                            \/ (clave[j] = clave[i] /\ j < i)}) + 1
    IN  [q \in 1..n |-> seq[CHOOSE i \in 1..n : pos(i) = q]]

(* editar_evento, lines 263-267: the rows of one date, ORDER BY             *)
(* fecha_registro.                                                         *)
reservaciones_de(f) ==
    LET res == SelectSeq(reservaciones, LAMBDA r : DATE(r.fecha_registro) = f)
    IN  order_by(res, [i \in 1..Len(res) |-> res[i].fecha_registro])

(* editar_evento, lines 260-268: rango_fechas is fi, fi+1, ..., ff and the  *)
(* rows of each date are appended in turn.                                 *)
RECURSIVE reservaciones_en_rango(_, _)
reservaciones_en_rango(fi, ff) ==
    IF ff < fi THEN <<>>
    ELSE reservaciones_de(fi) \o reservaciones_en_rango(fi + 1, ff)

(* Alphabetical rank of a shift label, for ORDER BY r.turno.               *)
orden_turno(t) == IF t = "mañana" THEN 1 ELSE IF t = "noche" THEN 2 ELSE 3

(* Mutant: the WHERE clause on the date is missing.                        *)
registros_de_sin_where(fecha) ==
    LET res == SelectSeq(reservaciones,
                         LAMBDA r : /\ r.id_cliente \in 1..Len(clientes)
                                    /\ r.id_sala \in 1..Len(salas))
        ord == order_by(res, [i \in 1..Len(res) |-> orden_turno(res[i].turno)])
    IN  [i \in 1..Len(ord) |->
            [folio |-> ord[i].folio,
             cliente |-> clientes[ord[i].id_cliente].nombre \o <<" ">>
                         \o clientes[ord[i].id_cliente].apellidos,
             sala |-> salas[ord[i].id_sala].nombre,
             turno |-> ord[i].turno,
             evento |-> ord[i].evento]]

(* consultar_reservaciones, lines 319-327: reservaciones JOIN clientes JOIN *)
(* salas of one date, ORDER BY turno.                                      *)
registros_de(fecha) ==
    LET res == SelectSeq(reservaciones,
                         LAMBDA r : /\ r.id_cliente \in 1..Len(clientes)
                                    /\ r.id_sala \in 1..Len(salas)
                                    /\ DATE(r.fecha_registro) = fecha)
        ord == order_by(res, [i \in 1..Len(res) |-> orden_turno(res[i].turno)])
    IN  [i \in 1..Len(ord) |->
            [folio |-> ord[i].folio,
             cliente |-> clientes[ord[i].id_cliente].nombre \o <<" ">>
                         \o clientes[ord[i].id_cliente].apellidos,
             sala |-> salas[ord[i].id_sala].nombre,
             turno |-> ord[i].turno,
             evento |-> ord[i].evento]]

(* The database write lock: held from the INSERT of registrar_reservacion   *)
(* until its connection commits or rolls back.                             *)
Bloqueada(p) == \E q \in activos : q # p /\ pc[q] = "insertado"

(* ------------------------------ Init ----------------------------------- *)
InitCon(ps) ==
    /\ ahora = DiaInicial * TicksPorDia
    /\ clientes = <<>>
    /\ salas = <<>>
    /\ reservaciones = <<>>
    /\ activos = ps
    /\ pc = [p \in Instancias |-> IF p \in ps THEN "menu" ELSE "terminado"]
    /\ loc = [p \in Instancias |-> LocInicial]
    /\ msg = [p \in Instancias |-> Salida("")]
    /\ creadas = <<>>

Init == InitCon({1}) /\ val = ValInicial

(* ------------------------------ actions -------------------------------- *)
Ir(p, lugar, texto) ==
    /\ pc' = [pc EXCEPT ![p] = lugar]
    /\ msg' = [msg EXCEPT ![p] = Salida(texto)]

Volver(p, texto) ==
    /\ Ir(p, "menu", texto)
    /\ loc' = [loc EXCEPT ![p] = LocInicial]

Tick ==
    /\ ahora + 1 < (DiaInicial + MaxDias) * TicksPorDia
    /\ ahora' = ahora + 1
    /\ UNCHANGED <<clientes, salas, reservaciones, activos, pc, loc, msg, creadas, val>>

registrar_cliente(p) ==
    /\ pc[p] = "menu"
    /\ ~Bloqueada(p)
    /\ Len(clientes) < MaxClientes
    /\ \E nombre \in NombreInputs, apellidos \in NombreInputs :
         IF ~validar_texto(strip(nombre))
         THEN Volver(p, "NombreInvalido") /\ UNCHANGED clientes
         ELSE IF ~validar_texto(strip(apellidos))
         THEN Volver(p, "ApellidosInvalidos") /\ UNCHANGED clientes
         ELSE /\ clientes' = Append(clientes, [nombre |-> strip(nombre),
                                               apellidos |-> strip(apellidos)])
              /\ Volver(p, "ClienteRegistrado")
    /\ UNCHANGED <<ahora, salas, reservaciones, activos, creadas, val>>

registrar_sala(p) ==
    /\ pc[p] = "menu"
    /\ ~Bloqueada(p)
    /\ Len(salas) < MaxSalas
    /\ \E nombre \in NombreInputs, cupo \in 0..MaxCupo, esEntero \in BOOLEAN :
         IF ~validar_texto(strip(nombre))
         THEN Volver(p, "NombreInvalido") /\ UNCHANGED salas
         ELSE IF ~esEntero \/ cupo <= 0
         THEN Volver(p, "CupoInvalido") /\ UNCHANGED salas
         ELSE /\ salas' = Append(salas, [nombre |-> strip(nombre), cupo |-> cupo])
              /\ Volver(p, "SalaRegistrada")
    /\ UNCHANGED <<ahora, clientes, reservaciones, activos, creadas, val>>

(* registrar_reservacion, lines 152-155: read the clients.                  *)
iniciar_reservacion(p) ==
    /\ pc[p] = "menu"
    /\ IF clientes = <<>>
       THEN Volver(p, "NoHayClientes")
       ELSE /\ Ir(p, "cliente", "")
            /\ loc' = [loc EXCEPT ![p].ncli = Len(clientes)]
    /\ UNCHANGED <<ahora, clientes, salas, reservaciones, activos, creadas, val>>

(* lines 160-170: the client key.                                          *)
clave_cliente(p) ==
    /\ pc[p] = "cliente"
    /\ \E esEntero \in BOOLEAN, clave \in 0..(MaxClientes + 1) :
         IF ~esEntero
         THEN Ir(p, "cliente", "ClaveInvalida") /\ UNCHANGED loc
         ELSE IF clave = 0
         THEN Volver(p, "")
         ELSE /\ loc' = [loc EXCEPT ![p].id_cliente = clave]
              /\ IF validar_clave_cliente(clave, loc[p].ncli)
                 THEN Ir(p, "fecha", "")
                 ELSE Ir(p, "cliente", "ClienteNoEncontrado")
    /\ UNCHANGED <<ahora, clientes, salas, reservaciones, activos, creadas, val>>

(* lines 172-197: the date, then the listing of rooms with free shifts.     *)
fecha_reservacion(p) ==
    /\ pc[p] = "fecha"
    /\ \E formato \in BOOLEAN, f \in Fechas :
         IF ~formato
         THEN Ir(p, "fecha", "FechaNoValida") /\ UNCHANGED loc
         ELSE LET r == validar_fecha_simple(f, hoy) IN
              IF ~r.ok
              THEN Ir(p, "fecha", r.msg) /\ UNCHANGED loc
              ELSE IF salas = <<>>
              THEN Volver(p, "NoHaySalas")
              ELSE IF disponible_salas(r.fecha) = {}
              THEN Volver(p, "NoHayDisponibles")
              ELSE /\ Ir(p, "sala", "")
                   /\ loc' = [loc EXCEPT ![p].fecha = r.fecha,
                                         ![p].libres = disponible_salas(r.fecha)]
    /\ UNCHANGED <<ahora, clientes, salas, reservaciones, activos, creadas, val>>

(* lines 199-210: the room and the shift.                                  *)
seleccionar_sala(p) ==
    /\ pc[p] = "sala"
    /\ \E esEntero \in BOOLEAN, id_sala \in 1..(MaxSalas + 1), t \in TurnoInputs :
         LET turno == lower(t) IN
         IF ~esEntero
         THEN Ir(p, "sala", "SeleccionInvalida") /\ UNCHANGED loc
         ELSE /\ loc' = [loc EXCEPT ![p].id_sala = id_sala, ![p].turno = turno]
              /\ IF turno \notin TurnosValidos
                 THEN Ir(p, "sala", "SeleccionInvalida")
                 ELSE IF ~sala_disponible(id_sala, loc[p].fecha, turno)
                 THEN Ir(p, "sala", "SalaOcupada")
                 ELSE Ir(p, "evento", "")
    /\ UNCHANGED <<ahora, clientes, salas, reservaciones, activos, creadas, val>>

(* lines 212-227: the event name, then the INSERT on a new connection,      *)
(* which takes the write lock (it waits while another instance holds it).  *)
(* The table holds at most MaxReservas rows.                               *)
nombre_evento(p) ==
    /\ pc[p] = "evento"
    /\ \E e \in EventoInputs :
         LET evento == strip(e) IN
         IF validar_evento(evento)
         THEN /\ ~Bloqueada(p)
              /\ Len(reservaciones) < MaxReservas
              /\ Ir(p, "insertado", "")
              /\ loc' = [loc EXCEPT ![p].evento = evento,
                                    ![p].fecha_hora = combine(loc[p].fecha, hora)]
         ELSE /\ Ir(p, "evento", "EventoVacio")
              /\ loc' = [loc EXCEPT ![p].evento = evento]
    /\ UNCHANGED <<ahora, clientes, salas, reservaciones, activos, creadas, val>>

(* The row the pending INSERT of p adds; folio is the next rowid.          *)
fila(p) == [folio |-> Len(reservaciones) + 1,
            id_cliente |-> loc[p].id_cliente,
            id_sala |-> loc[p].id_sala,
            fecha_registro |-> loc[p].fecha_hora,
            turno |-> loc[p].turno,
            evento |-> loc[p].evento]

(* lines 228-248: the display names are looked up; with both found the      *)
(* confirmation is printed and the connection commits; a room that is not  *)
(* in salas makes [0] raise IndexError, the connection rolls back and the  *)
(* exception ends the program.                                             *)
confirmar_reservacion(p) ==
    /\ pc[p] = "insertado"
    /\ IF loc[p].id_sala \in 1..Len(salas)
       THEN /\ reservaciones' = Append(reservaciones, fila(p))
            /\ creadas' = Append(creadas, [folio |-> fila(p).folio,
                                           id_cliente |-> loc[p].id_cliente,
                                           id_sala |-> loc[p].id_sala,
                                           fecha |-> loc[p].fecha,
                                           turno |-> loc[p].turno])
            /\ Volver(p, "Registrada")
       ELSE /\ Ir(p, "terminado", "IndexError")
            /\ loc' = [loc EXCEPT ![p] = LocInicial]
            /\ UNCHANGED <<reservaciones, creadas>>
    /\ UNCHANGED <<ahora, clientes, salas, activos, val>>

(* editar_evento, lines 251-272: the range, then the rows in it.           *)
iniciar_edicion(p) ==
    /\ pc[p] = "menu"
    /\ \E formato \in BOOLEAN, fi \in Fechas, ff \in Fechas :
         IF ~formato
         THEN Volver(p, "FechasInvalidas")
         ELSE LET rs == reservaciones_en_rango(fi, ff) IN
              IF rs = <<>>
              THEN Volver(p, "NoHayEnRango")
              ELSE /\ Ir(p, "folio", "")
                   /\ loc' = [loc EXCEPT ![p].rango = [i \in 1..Len(rs) |-> rs[i].folio]]
    /\ UNCHANGED <<ahora, clientes, salas, reservaciones, activos, creadas, val>>

(* lines 281-296: the folio to edit.                                       *)
capturar_folio(p) ==
    /\ pc[p] = "folio"
    /\ \E esEntero \in BOOLEAN, folio \in 0..(MaxReservas + 1) :
         IF ~esEntero
         THEN Ir(p, "folio", "FolioInvalido") /\ UNCHANGED loc
         ELSE IF folio = 0
         THEN Volver(p, "Cancelada")
         ELSE /\ loc' = [loc EXCEPT ![p].folio = folio]
              /\ IF \E i \in 1..Len(loc[p].rango) : loc[p].rango[i] = folio
                 THEN Ir(p, "nuevo_evento", "")
                 ELSE Ir(p, "folio", "FolioNoEncontrado")
    /\ UNCHANGED <<ahora, clientes, salas, reservaciones, activos, creadas, val>>

(* Mutant: the WHERE clause on the folio is missing.                       *)
update_evento_sin_where(tabla, nuevo_evento, folio) ==
    [i \in 1..Len(tabla) |-> [tabla[i] EXCEPT !.evento = nuevo_evento]]

(* UPDATE reservaciones SET evento=? WHERE folio=?                         *)
update_evento(tabla, nuevo_evento, folio) ==
    [i \in 1..Len(tabla) |->
        IF tabla[i].folio = folio THEN [tabla[i] EXCEPT !.evento = nuevo_evento]
        ELSE tabla[i]]

(* lines 298-305: the new event name, then the UPDATE.                      *)
nuevo_nombre(p) ==
    /\ pc[p] = "nuevo_evento"
    /\ \E e \in EventoInputs :
         LET nuevo_evento == strip(e) IN
         IF nuevo_evento # <<>>
         THEN /\ ~Bloqueada(p)
              /\ reservaciones' = update_evento(reservaciones, nuevo_evento, loc[p].folio)
              /\ Volver(p, "Actualizado")
         ELSE /\ Ir(p, "nuevo_evento", "EventoVacio")
              /\ UNCHANGED <<loc, reservaciones>>
    /\ UNCHANGED <<ahora, clientes, salas, activos, creadas, val>>

(* consultar_reservaciones, lines 309-332: the rows of one date (of today   *)
(* on an empty answer).                                                    *)
consultar_reservaciones(p) ==
    /\ pc[p] = "menu"
    /\ \E vacia \in BOOLEAN, formato \in BOOLEAN, f \in Fechas :
         IF ~vacia /\ ~formato
         THEN Ir(p, "menu", "FechaInvalida")
         ELSE LET fecha == IF vacia THEN hoy ELSE f
                  registros == registros_de(fecha)
              IN  IF registros = <<>>
                  THEN Ir(p, "menu", "NoHayParaFecha")
                  ELSE /\ pc' = pc
                       /\ msg' = [msg EXCEPT ![p] = [texto |-> "Consulta", fecha |-> fecha,
                                                     tabla |-> registros]]
    /\ UNCHANGED <<ahora, clientes, salas, reservaciones, activos, loc, creadas, val>>

(* menu option 6, confirmed.                                               *)
salir(p) ==
    /\ pc[p] = "menu"
    /\ Ir(p, "terminado", "Saliendo")
    /\ UNCHANGED <<ahora, clientes, salas, reservaciones, activos, loc, creadas, val>>

(* The program is started again: inicializar_bd finds the tables.          *)
menu(p) ==
    /\ pc[p] = "terminado"
    /\ Ir(p, "menu", "")
    /\ UNCHANGED <<ahora, clientes, salas, reservaciones, activos, loc, creadas, val>>

Next ==
    \/ Tick
    \/ \E p \in activos : registrar_cliente(p)
    \/ \E p \in activos : registrar_sala(p)
    \/ \E p \in activos : iniciar_reservacion(p)
    \/ \E p \in activos : clave_cliente(p)
    \/ \E p \in activos : fecha_reservacion(p)
    \/ \E p \in activos : seleccionar_sala(p)
    \/ \E p \in activos : nombre_evento(p)
    \/ \E p \in activos : confirmar_reservacion(p)
    \/ \E p \in activos : iniciar_edicion(p)
    \/ \E p \in activos : capturar_folio(p)
    \/ \E p \in activos : nuevo_nombre(p)
    \/ \E p \in activos : consultar_reservaciones(p)
    \/ \E p \in activos : salir(p)
    \/ \E p \in activos : menu(p)

Spec == Init /\ [][Next]_vars

(* ---------------- two instances on one database file ------------------- *)
(* The file already holds one client and one room; both instances register *)
(* reservations.                                                           *)
InitConc ==
    /\ ahora = DiaInicial * TicksPorDia
    /\ clientes = <<[nombre |-> <<"a">>, apellidos |-> <<"a">>]>>
    /\ salas = <<[nombre |-> <<"a">>, cupo |-> MaxCupo]>>
    /\ reservaciones = <<>>
    /\ activos = Instancias
    /\ pc = [p \in Instancias |-> "menu"]
    /\ loc = [p \in Instancias |-> LocInicial]
    /\ msg = [p \in Instancias |-> Salida("")]
    /\ creadas = <<>>
    /\ val = ValInicial

NextConc ==
    \/ \E p \in activos : iniciar_reservacion(p)
    \/ \E p \in activos : clave_cliente(p)
    \/ \E p \in activos : fecha_reservacion(p)
    \/ \E p \in activos : seleccionar_sala(p)
    \/ \E p \in activos : nombre_evento(p)
    \/ \E p \in activos : confirmar_reservacion(p)
    \/ \E p \in activos : menu(p)

SpecConc == InitConc /\ [][NextConc]_vars

(* ---------------------- the date validators alone ---------------------- *)
FechasVal == 0..MaxFechaVal

InitFecha ==
    /\ InitCon({})
    /\ \E d \in FechasVal, t \in FechasVal :
         val = [ValInicial EXCEPT !.fecha = d, !.hoy = t]

llamar_validar_fecha ==
    /\ val.politica = ""
    /\ \E aceptar \in {"s", "S", "n", ""} :
         val' = [val EXCEPT !.politica = "interactiva", !.aceptar = aceptar,
                            !.res = validar_fecha(val.fecha, val.hoy, lower(aceptar))]
    /\ UNCHANGED <<ahora, clientes, salas, reservaciones, activos, pc, loc, msg, creadas>>

llamar_validar_fecha_simple ==
    /\ val.politica = ""
    /\ val' = [val EXCEPT !.politica = "estricta",
                          !.res = validar_fecha_simple(val.fecha, val.hoy)]
    /\ UNCHANGED <<ahora, clientes, salas, reservaciones, activos, pc, loc, msg, creadas>>

NextFecha == llamar_validar_fecha \/ llamar_validar_fecha_simple

SpecFecha == InitFecha /\ [][NextFecha]_vars

(* ============================== claims ================================= *)
(* The slot of a stored row and of a printed confirmation.                 *)
SlotDe(r) == <<r.id_sala, DATE(r.fecha_registro), r.turno>>
SlotPedido(p) == <<loc[p].id_sala, loc[p].fecha, loc[p].turno>>
Ocupado(slot) == \E i \in 1..Len(reservaciones) : SlotDe(reservaciones[i]) = slot
Confirmado(s, f, t) ==
    \E k \in 1..Len(creadas) :
        creadas[k].id_sala = s /\ creadas[k].fecha = f /\ creadas[k].turno = t
EsDomingo(d) == d % 7 = 0
NombreCliente(c) == clientes[c].nombre \o <<" ">> \o clientes[c].apellidos

(* C1: when two callers register a reservation for the same room, date and *)
(* shift at the same time, at most one of them is confirmed: no two        *)
(* confirmations are printed, and no two rows are stored, for one slot.    *)
C1_UnSoloGanador ==
    \A i \in 1..Len(creadas), j \in 1..Len(creadas) :
        (creadas[i].id_sala = creadas[j].id_sala
         /\ creadas[i].fecha = creadas[j].fecha
         /\ creadas[i].turno = creadas[j].turno) => i = j

(* C2: with one caller, no two stored reservations share room, date and    *)
(* shift; a selection of an occupied slot is answered "SalaOcupada" and    *)
(* stays at the prompt, and a selection that is still waiting at the       *)
(* prompt with a valid shift is one of an occupied slot, so that a free    *)
(* shift of the same room and date goes on to be stored.                   *)
C2_SlotUnico ==
    /\ \A i \in 1..Len(reservaciones), j \in 1..Len(reservaciones) :
         SlotDe(reservaciones[i]) = SlotDe(reservaciones[j]) => i = j
    /\ \A p \in activos :
         /\ msg[p].texto = "SalaOcupada" => pc[p] = "sala" /\ Ocupado(SlotPedido(p))
         /\ (pc[p] = "sala" /\ loc[p].turno \in TurnosValidos) => Ocupado(SlotPedido(p))
         /\ pc[p] \in {"evento", "insertado"} => ~Ocupado(SlotPedido(p))

C2_Witness ==
    /\ Len(reservaciones) = 2
    /\ reservaciones[1].id_sala = reservaciones[2].id_sala
    /\ DATE(reservaciones[1].fecha_registro) = DATE(reservaciones[2].fecha_registro)
    /\ reservaciones[1].turno # reservaciones[2].turno
    /\ \E p \in activos : msg[p].texto = "SalaOcupada"

(* C3: the checks are made in the order client, room, event name, slot:    *)
(* whenever "SalaOcupada" is reported, the call has a known client, a      *)
(* known room and an event name already accepted as non-blank (a blank     *)
(* name on an occupied slot is answered "EventoVacio").                    *)
C3_OrdenDeChequeos ==
    \A p \in activos :
        msg[p].texto = "SalaOcupada" =>
            /\ loc[p].id_cliente \in 1..Len(clientes)
            /\ loc[p].id_sala \in 1..Len(salas)
            /\ validar_evento(loc[p].evento)

(* C4: a reservation goes past the client prompt only with the key of an   *)
(* existing client and past the room prompt only with the key of an        *)
(* existing room (anything else is reported there), and every stored       *)
(* reservation references an existing client and room.                     *)
C4_Referencias ==
    /\ \A p \in activos :
         /\ pc[p] \in {"fecha", "sala", "evento", "insertado"}
              => loc[p].id_cliente \in 1..Len(clientes)
         /\ pc[p] \in {"evento", "insertado"} => loc[p].id_sala \in 1..Len(salas)
         /\ msg[p].texto # "IndexError"
    /\ \A i \in 1..Len(reservaciones) :
         /\ reservaciones[i].id_cliente \in 1..Len(clientes)
         /\ reservaciones[i].id_sala \in 1..Len(salas)

C6_Politica ==
    val.politica # "" =>
        LET d == val.fecha
            t == val.hoy
            r == val.res
        IN  /\ d - t < 2 => ~r.ok /\ r.msg = "Anticipacion"
            /\ (d - t >= 2 /\ EsDomingo(d) /\ val.politica = "estricta")
                 => ~r.ok /\ r.msg = "Domingo"
            /\ (d - t >= 2 /\ EsDomingo(d) /\ val.politica = "interactiva")
                 => IF val.aceptar \in {"s", "S"} THEN r.ok /\ r.fecha = d + 1
                    ELSE ~r.ok /\ r.msg = "Domingo"
            /\ (d - t >= 2 /\ ~EsDomingo(d)) => r.ok /\ r.fecha = d
            /\ r.ok => r.fecha - t >= 2 /\ ~EsDomingo(r.fecha)

C6_Witness ==
    /\ val.politica = "interactiva"
    /\ EsDomingo(val.fecha)
    /\ val.aceptar = "S"
    /\ val.res.ok
    /\ val.res.fecha = val.fecha + 1

(* C7: a step changes no field of a stored reservation other than evento   *)
(* and removes none; the UPDATE of editar_evento adds none and leaves      *)
(* every reservation with another folio as it was; the same update made    *)
(* again changes nothing; date and shift stay those of the confirmation.   *)
SinEvento(r) == [r EXCEPT !.evento = <<>>]

C7_SoloEvento ==
    [][ /\ Len(reservaciones') >= Len(reservaciones)
        /\ \A i \in 1..Len(reservaciones) :
             SinEvento(reservaciones'[i]) = SinEvento(reservaciones[i])
        /\ \A p \in activos :
             pc[p] = "nuevo_evento" =>
                /\ Len(reservaciones') = Len(reservaciones)
                /\ \A i \in 1..Len(reservaciones) :
                     reservaciones[i].folio # loc[p].folio
                        => reservaciones'[i] = reservaciones[i]
                /\ msg'[p].texto = "Actualizado" =>
                     /\ reservaciones'[loc[p].folio].evento # <<>>
                     /\ update_evento(reservaciones',
                                      strip(reservaciones'[loc[p].folio].evento),
                                      loc[p].folio) = reservaciones'
        /\ \A i \in 1..Len(reservaciones') :
             /\ reservaciones'[i].folio = creadas'[i].folio
             /\ DATE(reservaciones'[i].fecha_registro) = creadas'[i].fecha
             /\ reservaciones'[i].turno = creadas'[i].turno
      ]_vars

C7_Witness ==
    /\ Len(reservaciones) = 2
    /\ reservaciones[1].evento # reservaciones[2].evento
    /\ \E p \in activos : msg[p].texto = "Actualizado"

(* C8: every stored event name is non-empty after trimming; a step that     *)
(* reports a blank event name stays at its prompt and changes no stored    *)
(* reservation.                                                            *)
C8_EventoNoVacio ==
    /\ [](/\ \A i \in 1..Len(reservaciones) : strip(reservaciones[i].evento) # <<>>
          /\ \A p \in activos :
               msg[p].texto = "EventoVacio" => pc[p] \in {"evento", "nuevo_evento"})
    /\ [][(\E p \in activos : msg'[p].texto = "EventoVacio")
             => reservaciones' = reservaciones]_vars

C8_Witness ==
    /\ Len(reservaciones) >= 1
    /\ \E p \in activos : msg[p].texto = "EventoVacio" /\ pc[p] = "nuevo_evento"

(* C9: the reservations listed for a date range are in order of date and,  *)
(* within one date, in the order in which they were created (increasing    *)
(* folio).                                                                 *)
C9_OrdenDeCreacion ==
    \A p \in activos :
        pc[p] = "folio" =>
            \A i \in 1..Len(loc[p].rango), j \in 1..Len(loc[p].rango) :
                i < j =>
                    LET a == creadas[loc[p].rango[i]]
                        b == creadas[loc[p].rango[j]]
                    IN  a.fecha < b.fecha \/ (a.fecha = b.fecha /\ a.folio < b.folio)

(* C10: a confirmed reservation appears exactly once in the consultation   *)
(* of its date, with the folio of the confirmation and its client, room    *)
(* and shift, and in the consultation of no other date.                    *)
ApareceEn(tabla, c) ==
    /\ Cardinality({i \in 1..Len(tabla) : tabla[i].folio = c.folio}) = 1
    /\ \A i \in 1..Len(tabla) :
         tabla[i].folio = c.folio =>
            /\ tabla[i].cliente = NombreCliente(c.id_cliente)
            /\ tabla[i].sala = salas[c.id_sala].nombre
            /\ tabla[i].turno = c.turno

C10_Consulta ==
    /\ \A k \in 1..Len(creadas), f \in Fechas :
         IF f = creadas[k].fecha
         THEN ApareceEn(registros_de(f), creadas[k])
         ELSE \A i \in 1..Len(registros_de(f)) : registros_de(f)[i].folio # creadas[k].folio
    /\ \A p \in activos :
         msg[p].texto = "Consulta" =>
            \A k \in 1..Len(creadas) :
                IF creadas[k].fecha = msg[p].fecha
                THEN ApareceEn(msg[p].tabla, creadas[k])
                ELSE \A i \in 1..Len(msg[p].tabla) : msg[p].tabla[i].folio # creadas[k].folio

C10_Witness ==
    /\ Len(creadas) = 2
    /\ creadas[1].fecha # creadas[2].fecha
    /\ \E p \in activos :
         /\ msg[p].texto = "Consulta"
         /\ msg[p].fecha = creadas[2].fecha
         /\ Len(msg[p].tabla) = 1

====
